---- MODULE Spec2Model ----
(***************************************************************************)
(* Authorization behaviour of the multi-tenant task manager: the           *)
(* role/permission registry, the role hierarchy, the task, organization    *)
(* and user-management endpoints with their guards, over the user, task    *)
(* and organization stores.                                                *)
(***************************************************************************)
EXTENDS Integers, Sequences, FiniteSets, TLC

VARIABLES users, orgs, orgCount, tasks, taskCount, last, inflight

vars == <<users, orgs, orgCount, tasks, taskCount, last, inflight>>

(***************************************************************************)
(* Bounds                                                                  *)
(***************************************************************************)
MaxTasks == 1
MaxOrgs == 2
\* requests that are being handled at the same time
MaxInFlight == 2

(***************************************************************************)
(* Identifiers and enums                                                   *)
(***************************************************************************)
\* the three users created by the seed: an ADMIN, an OWNER and a VIEWER
UserIds == {"u1", "u2", "u3"}
NoUser == "nobody"
NoOrg == 0
NoTask == 0
UNDEF == "undefined"

UserRole == {"OWNER", "ADMIN", "VIEWER"}
\* the role strings a caller or a request body can carry: @Body('role') is
\* not validated and the role column is a varchar, so a string outside the
\* enum is stored as it comes
RoleInputs == UserRole \cup {"GUEST"}

TaskStatus == {"TODO", "IN_PROGRESS", "COMPLETED"}
StatusInputs == {"TODO", "COMPLETED"}

OrgNames == {"Default Organization", "Acme"}
\* the description column of an organization is not part of the state: no
\* check reads it; these are the values an update request carries
OrgDescriptions == {"edited"}

TASK_CREATE == "task:create"
TASK_READ == "task:read"
TASK_READ_ALL == "task:read:all"
TASK_READ_OWN == "task:read:own"
TASK_UPDATE == "task:update"
TASK_UPDATE_ALL == "task:update:all"
TASK_UPDATE_OWN == "task:update:own"
TASK_DELETE == "task:delete"
TASK_DELETE_ALL == "task:delete:all"
TASK_DELETE_OWN == "task:delete:own"
USER_CREATE == "user:create"
USER_READ == "user:read"
USER_UPDATE == "user:update"
USER_DELETE == "user:delete"
ORG_MANAGE == "org:manage"
ORG_READ == "org:read"
AUDIT_LOG_READ == "audit:read"

Permission ==
  { TASK_CREATE, TASK_READ, TASK_READ_ALL, TASK_READ_OWN, TASK_UPDATE,
    TASK_UPDATE_ALL, TASK_UPDATE_OWN, TASK_DELETE, TASK_DELETE_ALL,
    TASK_DELETE_OWN, USER_CREATE, USER_READ, USER_UPDATE, USER_DELETE,
    ORG_MANAGE, ORG_READ, AUDIT_LOG_READ }

\* the OWNER array without audit:read
OWNER_PERMISSIONS_WithoutAuditRead ==
  << TASK_CREATE, TASK_READ_ALL, TASK_READ_OWN, TASK_UPDATE_ALL,
     TASK_UPDATE_OWN, TASK_DELETE_ALL, TASK_DELETE_OWN, USER_CREATE,
     USER_READ, USER_UPDATE, USER_DELETE, ORG_MANAGE, ORG_READ >>

\* the arrays of the role table, in source order
OWNER_PERMISSIONS ==
  << TASK_CREATE, TASK_READ_ALL, TASK_READ_OWN, TASK_UPDATE_ALL,
     TASK_UPDATE_OWN, TASK_DELETE_ALL, TASK_DELETE_OWN, USER_CREATE,
     USER_READ, USER_UPDATE, USER_DELETE, ORG_MANAGE, ORG_READ,
     AUDIT_LOG_READ >>

\* the ADMIN array with user:delete left in
ADMIN_PERMISSIONS_WithUserDelete ==
  << TASK_CREATE, TASK_READ_ALL, TASK_READ_OWN, TASK_UPDATE_ALL,
     TASK_UPDATE_OWN, TASK_DELETE_ALL, TASK_DELETE_OWN, USER_CREATE,
     USER_READ, USER_UPDATE, USER_DELETE, ORG_READ, AUDIT_LOG_READ >>

ADMIN_PERMISSIONS ==
  << TASK_CREATE, TASK_READ_ALL, TASK_READ_OWN, TASK_UPDATE_ALL,
     TASK_UPDATE_OWN, TASK_DELETE_ALL, TASK_DELETE_OWN, USER_CREATE,
     USER_READ, USER_UPDATE, ORG_READ, AUDIT_LOG_READ >>

VIEWER_PERMISSIONS ==
  << TASK_CREATE, TASK_READ_OWN, TASK_UPDATE_OWN, TASK_DELETE_OWN, ORG_READ >>

ROLE_PERMISSIONS ==
  [ r \in UserRole |->
      CASE r = "OWNER" -> OWNER_PERMISSIONS
        [] r = "ADMIN" -> ADMIN_PERMISSIONS
        [] r = "VIEWER" -> VIEWER_PERMISSIONS ]

Range(s) == { s[i] : i \in DOMAIN s }

(***************************************************************************)
(* RbacService                                                             *)
(***************************************************************************)
\* ROLE_PERMISSIONS[role] || []
getPermissionsForRole(role) ==
  IF role \in DOMAIN ROLE_PERMISSIONS THEN ROLE_PERMISSIONS[role] ELSE << >>

hasPermission(role, permission) ==
  permission \in Range(getPermissionsForRole(role))

roleHierarchy == [ r \in UserRole |->
      CASE r = "OWNER" -> 3
        [] r = "ADMIN" -> 2
        [] r = "VIEWER" -> 1 ]

\* roleHierarchy[role] || 0
getRoleLevel(role) ==
  IF role \in DOMAIN roleHierarchy THEN roleHierarchy[role] ELSE 0

\* the comparison made non-strict
canManageRole_NonStrict(managerRole, targetRole) ==
  /\ managerRole \in DOMAIN roleHierarchy
  /\ targetRole \in DOMAIN roleHierarchy
  /\ roleHierarchy[managerRole] >= roleHierarchy[targetRole]

\* roleHierarchy[managerRole] > roleHierarchy[targetRole]; a lookup of a role
\* outside the table is undefined and every comparison with it is false
canManageRole(managerRole, targetRole) ==
  /\ managerRole \in DOMAIN roleHierarchy
  /\ targetRole \in DOMAIN roleHierarchy
  /\ roleHierarchy[managerRole] > roleHierarchy[targetRole]

canAccessResource(userRole, userId, resourceOwnerId, requiredPermission) ==
  IF ~hasPermission(userRole, requiredPermission) THEN FALSE
  ELSE IF userRole = "OWNER" \/ userRole = "ADMIN" THEN TRUE
  ELSE userId = resourceOwnerId

(***************************************************************************)
(* Guards                                                                  *)
(***************************************************************************)
getUserPermissionsWithInheritance(role) ==
  IF role \in DOMAIN ROLE_PERMISSIONS THEN Range(ROLE_PERMISSIONS[role]) ELSE {}

\* PermissionsGuard.canActivate for an authenticated user: "allow", or the
\* reason of the ForbiddenException
PermissionsGuard(role, requiredPermissions) ==
  IF requiredPermissions = {} THEN "allow"
  ELSE IF requiredPermissions \subseteq getUserPermissionsWithInheritance(role)
       THEN "allow"
       ELSE "MissingPermission"

\* a RolesGuard that lets every role through
RolesGuard_AllowsAll(role, requiredRoles) ==
  requiredRoles = requiredRoles

\* RolesGuard.canActivate: some required role equals the user's role
RolesGuard(role, requiredRoles) ==
  \E r \in requiredRoles : role = r

(***************************************************************************)
(* The principal of a request: the stored user record with its id          *)
(***************************************************************************)
Principal(u) ==
  [ id |-> u, role |-> users[u].role, organizationId |-> users[u].organizationId ]

(***************************************************************************)
(* TasksService                                                            *)
(***************************************************************************)
\* verifyAccess letting the owner and the assignee through before it looks at
\* the organization
verifyAccess_OwnershipFirst(task, user, requiredPermission) ==
  IF task.ownerId = user.id \/ task.assignedToId = user.id THEN "allow"
  ELSE IF task.organizationId # user.organizationId THEN "CrossOrganizationAccess"
  ELSE IF user.role = "OWNER" \/ user.role = "ADMIN" THEN "allow"
  ELSE "NotOwner"

\* verifyAccess with the role bypass granted to OWNER only
verifyAccess_OwnerOnly(task, user, requiredPermission) ==
  IF task.organizationId # user.organizationId THEN "CrossOrganizationAccess"
  ELSE IF user.role = "OWNER" THEN "allow"
  ELSE IF task.ownerId # user.id /\ task.assignedToId # user.id THEN "NotOwner"
  ELSE IF ~hasPermission(user.role, requiredPermission) THEN "MissingPermission"
  ELSE "allow"

\* "allow", or the denial the ForbiddenException stands for
verifyAccess(task, user, requiredPermission) ==
  IF task.organizationId # user.organizationId THEN "CrossOrganizationAccess"
  ELSE IF user.role = "OWNER" \/ user.role = "ADMIN" THEN "allow"
  ELSE IF task.ownerId # user.id /\ task.assignedToId # user.id THEN "NotOwner"
  ELSE IF ~hasPermission(user.role, requiredPermission) THEN "MissingPermission"
  ELSE "allow"

Response(outcome, reason) == [ outcome |-> outcome, reason |-> reason ]

Allowed == Response("ok", "none")

\* findOne answering a missing task like a task of another organization
findOne_ForbiddenWhenMissing(id, user) ==
  IF id \notin DOMAIN tasks THEN Response("forbidden", "CrossOrganizationAccess")
  ELSE LET v == verifyAccess(tasks[id], user, TASK_READ_OWN)
       IN IF v # "allow" THEN Response("forbidden", v) ELSE Allowed

\* outcome of TasksService.findOne in the current store
findOne(id, user) ==
  IF id \notin DOMAIN tasks THEN Response("notfound", "none")
  ELSE LET v == verifyAccess(tasks[id], user, TASK_READ_OWN)
       IN IF v # "allow" THEN Response("forbidden", v) ELSE Allowed

\* the checks of TasksService.update / remove that precede the write
accessFor(id, user, requiredPermission) ==
  LET r == findOne(id, user)
  IN IF r.outcome # "ok" THEN r
     ELSE LET v == verifyAccess(tasks[id], user, requiredPermission)
          IN IF v # "allow" THEN Response("forbidden", v) ELSE Allowed

\* the rows TasksService.findAll selects
findAll(user) ==
  IF user.organizationId = NoOrg THEN {}
  ELSE { t \in DOMAIN tasks : tasks[t].organizationId = user.organizationId }

findByStatus(status, user) ==
  IF user.organizationId = NoOrg THEN {}
  ELSE { t \in DOMAIN tasks : /\ tasks[t].organizationId = user.organizationId
                              /\ tasks[t].status = status }

\* OwnershipGuard letting a VIEWER through as the owner only, not as the
\* assignee
OwnershipGuard_OwnerOnly(user, resourceId) ==
  IF resourceId \notin DOMAIN tasks THEN Response("notfound", "none")
  ELSE IF user.role = "OWNER" \/ user.role = "ADMIN"
  THEN IF tasks[resourceId].organizationId # user.organizationId
       THEN Response("forbidden", "CrossOrganizationAccess")
       ELSE Allowed
  ELSE IF tasks[resourceId].ownerId # user.id
       THEN Response("forbidden", "NotOwner")
       ELSE IF tasks[resourceId].organizationId # user.organizationId
            THEN Response("forbidden", "CrossOrganizationAccess")
            ELSE Allowed

\* OwnershipGuard.canActivate with a resource id in the request
OwnershipGuard(user, resourceId) ==
  IF user.role = "OWNER" \/ user.role = "ADMIN"
  THEN IF resourceId \notin DOMAIN tasks THEN Response("notfound", "none")
       ELSE IF tasks[resourceId].organizationId # user.organizationId
            THEN Response("forbidden", "CrossOrganizationAccess")
            ELSE Allowed
  ELSE IF resourceId \notin DOMAIN tasks THEN Response("notfound", "none")
       ELSE IF /\ tasks[resourceId].ownerId # user.id
               /\ tasks[resourceId].assignedToId # user.id
            THEN Response("forbidden", "NotOwner")
            ELSE IF tasks[resourceId].organizationId # user.organizationId
                 THEN Response("forbidden", "CrossOrganizationAccess")
                 ELSE Allowed

(***************************************************************************)
(* The record of the most recent request and its response                  *)
(***************************************************************************)
\* no level was asked for
NoLevel == -1

NoLast ==
  [ op |-> "none", actor |-> NoUser, task |-> NoTask, org |-> NoOrg,
    target |-> NoUser, role |-> "none", role2 |-> "none", perm |-> "none",
    status |-> "none", level |-> NoLevel, email |-> "none",
    outcome |-> "none", reason |-> "none", message |-> << >>,
    result |-> {}, perms |-> {} ]

Req(op, actor) == [ NoLast EXCEPT !.op = op, !.actor = actor ]

\* the permission the controller requires on the endpoint
EndpointPermission(op) ==
  CASE op = "tasks.create" -> TASK_CREATE
    [] op \in {"tasks.findAll", "tasks.findByStatus", "tasks.findOne"} -> TASK_READ_OWN
    [] op = "tasks.update" -> TASK_UPDATE_OWN
    [] op = "tasks.remove" -> TASK_DELETE_OWN
    [] op \in {"organizations.create", "organizations.findAll",
               "organizations.findOne"} -> ORG_READ
    [] op \in {"organizations.update", "organizations.remove"} -> ORG_MANAGE
    [] op = "organizations.getUsers" -> USER_READ
    [] op = "organizations.addUser" -> USER_CREATE
    [] op = "organizations.removeUser" -> USER_DELETE
    [] op = "organizations.updateUserRole" -> USER_UPDATE
    [] OTHER -> "none"

\* the message of the exception a refused request is answered with: its text
\* followed by the values interpolated into it
ForbiddenMessage(req, reason) ==
  CASE reason = "MissingPermission" /\ req.op = "tasks.verifyAccess" ->
         << "You do not have permission: ", req.perm >>
    [] reason = "MissingPermission" /\ req.op # "tasks.verifyAccess" ->
         << "You do not have the required permissions: ",
            EndpointPermission(req.op) >>
    [] reason = "NoOrganization" ->
         << "You must belong to an organization to create tasks" >>
    [] reason = "NotOwner" /\ req.op = "ownershipGuard" ->
         << "You do not own this resource" >>
    [] reason = "CrossOrganizationAccess" /\ req.op = "ownershipGuard" ->
         << "You do not have access to this resource" >>
    [] /\ reason \in {"NotOwner", "CrossOrganizationAccess"}
       /\ req.op \in {"tasks.findOne", "tasks.update", "tasks.remove",
                       "tasks.verifyAccess"} ->
         << "You do not have access to this task" >>
    [] reason = "CrossOrganizationAccess" /\ req.op = "users.deleteUser" ->
         << "You can only delete users from your organization" >>
    [] reason = "CrossOrganizationAccess" /\ req.op # "users.deleteUser" ->
         << "You do not have access to this organization" >>
    [] reason = "NotOrganizationOwner" /\ req.op = "organizations.update" ->
         << "Only organization owners can update organization details" >>
    [] reason = "NotOrganizationOwner" /\ req.op # "organizations.update" ->
         << "Only organization owners can delete the organization" >>
    [] reason = "InsufficientHierarchy" ->
         CASE req.op = "organizations.addUser" ->
                << "Only owners and admins can add users" >>
           [] req.op = "organizations.removeUser" ->
                << "Only owners can remove users" >>
           [] req.op = "organizations.updateUserRole" ->
                << "Only owners can update user roles" >>
           [] OTHER -> << "Forbidden resource" >>
    [] reason = "SelfTargetForbidden" ->
         CASE req.op = "organizations.removeUser" ->
                << "You cannot remove yourself from the organization" >>
           [] req.op = "organizations.updateUserRole" ->
                << "You cannot change your own role" >>
           [] OTHER -> << "You cannot delete yourself" >>
    [] OTHER -> << >>

Answer(req, resp) ==
  [ req EXCEPT !.outcome = resp.outcome, !.reason = resp.reason,
               !.message = IF resp.outcome = "forbidden"
                           THEN ForbiddenMessage(req, resp.reason) ELSE << >> ]

(***************************************************************************)
(* Init: the stores after the seed has run                                 *)
(***************************************************************************)
Init ==
  /\ orgs = [ o \in {1} |-> [ name |-> "Default Organization" ] ]
  /\ orgCount = 1
  /\ users = [ u \in UserIds |->
                 [ role |-> CASE u = "u1" -> "ADMIN"
                              [] u = "u2" -> "OWNER"
                              [] u = "u3" -> "VIEWER",
                   organizationId |-> 1 ] ]
  /\ tasks = [ t \in {} |-> [ ownerId |-> NoUser, organizationId |-> NoOrg,
                              assignedToId |-> NoUser, status |-> "TODO" ] ]
  /\ taskCount = 0
  /\ last = NoLast
  /\ inflight = {}

(***************************************************************************)
(* Task endpoints (TasksController: PermissionsGuard, then TasksService)   *)
(***************************************************************************)
Denied(req, reason) == Answer(req, Response("forbidden", reason))

\* no request is being handled
Idle == last.op = "none"

\* the request body of a create: the dto's fields, and ownerId and
\* organizationId as a caller can add them to the JSON (NoOrg: key absent)
CreateTaskDtos ==
  [ status : {UNDEF} \cup StatusInputs, assignedToId : {UNDEF} \cup UserIds,
    ownerId : {UNDEF, "u2"}, organizationId : {NoOrg, MaxOrgs} ]

\* the column values the body of a create gives, with the defaults
TaskFromBody(dto) ==
  [ ownerId |-> IF dto.ownerId = UNDEF THEN NoUser ELSE dto.ownerId,
    organizationId |-> dto.organizationId,
    assignedToId |-> IF dto.assignedToId = UNDEF THEN NoUser ELSE dto.assignedToId,
    status |-> IF dto.status = UNDEF THEN "TODO" ELSE dto.status ]

\* the object literal with the body spread last, over ownerId and
\* organizationId
NewTask_BodyLast(dto, user) ==
  [ TaskFromBody(dto) EXCEPT
      !.ownerId = IF dto.ownerId = UNDEF THEN user.id ELSE @,
      !.organizationId = IF dto.organizationId = NoOrg
                         THEN user.organizationId ELSE @ ]

\* { ...createTaskDto, ownerId: user.id, organizationId: user.organizationId }
NewTask(dto, user) ==
  [ TaskFromBody(dto) EXCEPT !.ownerId = user.id,
                             !.organizationId = user.organizationId ]

TasksCreate(u, dto) ==
  LET user == Principal(u)
      req == [ Req("tasks.create", u)
                 EXCEPT !.target = TaskFromBody(dto).ownerId,
                        !.org = TaskFromBody(dto).organizationId ]
      g == PermissionsGuard(user.role, {TASK_CREATE})
      id == taskCount + 1
      task == NewTask(dto, user)
  IN /\ Idle
     /\ taskCount < MaxTasks
     /\ IF g # "allow"
        THEN /\ last' = Denied(req, g)
             /\ UNCHANGED <<tasks, taskCount>>
        ELSE IF user.organizationId = NoOrg
        THEN /\ last' = Denied(req, "NoOrganization")
             /\ UNCHANGED <<tasks, taskCount>>
        ELSE IF \/ task.assignedToId # NoUser /\ task.assignedToId \notin DOMAIN users
                \/ task.organizationId \notin DOMAIN orgs
        THEN \* a foreign key of the task rejects the insert
             /\ last' = Answer(req, Response("error", "ForeignKey"))
             /\ UNCHANGED <<tasks, taskCount>>
        ELSE /\ tasks' = [ t \in DOMAIN tasks \cup {id} |->
                             IF t = id THEN task ELSE tasks[t] ]
             /\ taskCount' = id
             /\ last' = [ Answer(req, Allowed) EXCEPT !.task = id ]
     /\ UNCHANGED <<users, orgs, orgCount>>

TasksFindAll(u) ==
  LET user == Principal(u)
      req == Req("tasks.findAll", u)
      g == PermissionsGuard(user.role, {TASK_READ_OWN})
  IN /\ Idle
     /\ last' = IF g # "allow" THEN Denied(req, g)
                ELSE [ Answer(req, Allowed) EXCEPT !.result = findAll(user) ]
     /\ UNCHANGED <<users, orgs, orgCount, tasks, taskCount>>

TasksFindByStatus(u, status) ==
  LET user == Principal(u)
      req == [ Req("tasks.findByStatus", u) EXCEPT !.status = status ]
      g == PermissionsGuard(user.role, {TASK_READ_OWN})
  IN /\ Idle
     /\ last' = IF g # "allow" THEN Denied(req, g)
                ELSE [ Answer(req, Allowed)
                         EXCEPT !.result = findByStatus(status, user) ]
     /\ UNCHANGED <<users, orgs, orgCount, tasks, taskCount>>

TasksFindOne(u, id) ==
  LET user == Principal(u)
      req == [ Req("tasks.findOne", u) EXCEPT !.task = id ]
      g == PermissionsGuard(user.role, {TASK_READ_OWN})
  IN /\ Idle
     /\ last' = IF g # "allow" THEN Denied(req, g)
                ELSE Answer(req, findOne(id, user))
     /\ UNCHANGED <<users, orgs, orgCount, tasks, taskCount>>

\* the request body of an update: the dto's fields, and the relation objects
\* owner and organization as a caller can add them to the JSON, given by
\* their id (UNDEF, NoOrg: key absent)
UpdateTaskDtos ==
  [ status : {UNDEF} \cup StatusInputs,
    assignedToId : {UNDEF, NoUser} \cup UserIds,
    owner : {UNDEF, "u2"}, organization : {NoOrg, MaxOrgs} ]

\* Object.assign(task, updateTaskDto) followed by save: the keys present in
\* the body replace the entity's properties, and a join column is written
\* from the relation object when one is set (assignedTo was set to null, so
\* assignedToId is written from the column)
assign(task, dto) ==
  [ task EXCEPT
      !.status = IF dto.status = UNDEF THEN @ ELSE dto.status,
      !.assignedToId = IF dto.assignedToId = UNDEF THEN @ ELSE dto.assignedToId,
      !.ownerId = IF dto.owner = UNDEF THEN @ ELSE dto.owner,
      !.organizationId = IF dto.organization = NoOrg THEN @ ELSE dto.organization ]

\* remove deleting the row before it checks the access
TasksRemove_RemovesFirst(u, id) ==
  LET user == Principal(u)
      req == [ Req("tasks.remove", u) EXCEPT !.task = id ]
      g == PermissionsGuard(user.role, {TASK_DELETE_OWN})
      r == accessFor(id, user, TASK_DELETE_OWN)
  IN /\ Idle
     /\ tasks' = [ t \in DOMAIN tasks \ {id} |-> tasks[t] ]
     /\ last' = IF g # "allow" THEN Denied(req, g) ELSE Answer(req, r)
     /\ UNCHANGED <<users, orgs, orgCount, taskCount>>

TasksUpdate(u, id, dto) ==
  LET user == Principal(u)
      req == [ Req("tasks.update", u) EXCEPT !.task = id ]
      g == PermissionsGuard(user.role, {TASK_UPDATE_OWN})
      r == accessFor(id, user, TASK_UPDATE_OWN)
  IN /\ Idle
     /\ IF g # "allow"
        THEN /\ last' = Denied(req, g)
             /\ UNCHANGED tasks
        ELSE IF r.outcome # "ok"
        THEN /\ last' = Answer(req, r)
             /\ UNCHANGED tasks
        ELSE IF \/ /\ dto.assignedToId \notin {UNDEF, NoUser}
                   /\ dto.assignedToId \notin DOMAIN users
                \/ dto.owner # UNDEF /\ dto.owner \notin DOMAIN users
                \/ dto.organization # NoOrg /\ dto.organization \notin DOMAIN orgs
        THEN \* a foreign key of the task rejects the save
             /\ last' = Answer(req, Response("error", "ForeignKey"))
             /\ UNCHANGED tasks
        ELSE /\ tasks' = [ tasks EXCEPT ![id] = assign(tasks[id], dto) ]
             /\ last' = Answer(req, Allowed)
     /\ UNCHANGED <<users, orgs, orgCount, taskCount>>

TasksRemove(u, id) ==
  LET user == Principal(u)
      req == [ Req("tasks.remove", u) EXCEPT !.task = id ]
      g == PermissionsGuard(user.role, {TASK_DELETE_OWN})
      r == accessFor(id, user, TASK_DELETE_OWN)
  IN /\ Idle
     /\ IF g # "allow"
        THEN /\ last' = Denied(req, g)
             /\ UNCHANGED tasks
        ELSE IF r.outcome # "ok"
        THEN /\ last' = Answer(req, r)
             /\ UNCHANGED tasks
        ELSE /\ tasks' = [ t \in DOMAIN tasks \ {id} |-> tasks[t] ]
             /\ last' = Answer(req, Allowed)
     /\ UNCHANGED <<users, orgs, orgCount, taskCount>>

OwnershipGuardCheck(u, id) ==
  LET user == Principal(u)
      req == [ Req("ownershipGuard", u) EXCEPT !.task = id ]
  IN /\ Idle
     /\ last' = Answer(req, OwnershipGuard(user, id))
     /\ UNCHANGED <<users, orgs, orgCount, tasks, taskCount>>

TaskIds == 1..MaxTasks

(***************************************************************************)
(* OrganizationsService                                                    *)
(***************************************************************************)
\* the checks of OrganizationsService.findOne
orgFindOne(id, user) ==
  IF id \notin DOMAIN orgs THEN Response("notfound", "none")
  ELSE IF user.organizationId # id /\ user.role # "OWNER"
       THEN Response("forbidden", "CrossOrganizationAccess")
       ELSE Allowed

\* the checks of OrganizationsService.update / remove that precede the write
orgManage(id, user) ==
  LET r == orgFindOne(id, user)
  IN IF r.outcome # "ok" THEN r
     ELSE IF user.role # "OWNER" \/ user.organizationId # id
          THEN Response("forbidden", "NotOrganizationOwner")
          ELSE Allowed

\* addUser without the test that the user has no organization yet
addUserChecks_NoConflictCheck(organizationId, userId, currentUser) ==
  IF currentUser.organizationId # organizationId
  THEN Response("forbidden", "CrossOrganizationAccess")
  ELSE IF currentUser.role # "OWNER" /\ currentUser.role # "ADMIN"
  THEN Response("forbidden", "InsufficientHierarchy")
  ELSE IF userId \notin DOMAIN users THEN Response("notfound", "none")
  ELSE Allowed

\* the checks of OrganizationsService.addUser
addUserChecks(organizationId, userId, currentUser) ==
  IF currentUser.organizationId # organizationId
  THEN Response("forbidden", "CrossOrganizationAccess")
  ELSE IF currentUser.role # "OWNER" /\ currentUser.role # "ADMIN"
  THEN Response("forbidden", "InsufficientHierarchy")
  ELSE IF userId \notin DOMAIN users THEN Response("notfound", "none")
  ELSE IF users[userId].organizationId # NoOrg THEN Response("conflict", "none")
  ELSE Allowed

\* removeUser without the check against removing oneself
removeUserChecks_NoSelfCheck(organizationId, userId, currentUser) ==
  IF currentUser.organizationId # organizationId \/ currentUser.role # "OWNER"
  THEN Response("forbidden", "InsufficientHierarchy")
  ELSE IF ~(userId \in DOMAIN users /\ users[userId].organizationId = organizationId)
  THEN Response("notfound", "none")
  ELSE Allowed

\* the checks of OrganizationsService.removeUser
removeUserChecks(organizationId, userId, currentUser) ==
  IF currentUser.organizationId # organizationId \/ currentUser.role # "OWNER"
  THEN Response("forbidden", "InsufficientHierarchy")
  ELSE IF userId = currentUser.id
  THEN Response("forbidden", "SelfTargetForbidden")
  ELSE IF ~(userId \in DOMAIN users /\ users[userId].organizationId = organizationId)
  THEN Response("notfound", "none")
  ELSE Allowed

\* updateUserRole without the own-role check
updateUserRoleChecks_NoSelfCheck(organizationId, userId, currentUser) ==
  IF currentUser.organizationId # organizationId \/ currentUser.role # "OWNER"
  THEN Response("forbidden", "InsufficientHierarchy")
  ELSE IF ~(userId \in DOMAIN users /\ users[userId].organizationId = organizationId)
  THEN Response("notfound", "none")
  ELSE Allowed

\* the checks of OrganizationsService.updateUserRole
updateUserRoleChecks(organizationId, userId, currentUser) ==
  IF currentUser.organizationId # organizationId \/ currentUser.role # "OWNER"
  THEN Response("forbidden", "InsufficientHierarchy")
  ELSE IF userId = currentUser.id
  THEN Response("forbidden", "SelfTargetForbidden")
  ELSE IF ~(userId \in DOMAIN users /\ users[userId].organizationId = organizationId)
  THEN Response("notfound", "none")
  ELSE Allowed

(***************************************************************************)
(* Organization endpoints (OrganizationsController: PermissionsGuard,      *)
(* then OrganizationsService)                                              *)
(***************************************************************************)
OrgIds == 1..MaxOrgs

CreateOrganizationDtos == [ name : OrgNames ]

OrganizationsCreate(u, dto) ==
  LET user == Principal(u)
      req == Req("organizations.create", u)
      g == PermissionsGuard(user.role, {ORG_READ})
      id == orgCount + 1
  IN /\ Idle
     /\ orgCount < MaxOrgs
     /\ IF g # "allow"
        THEN /\ last' = Denied(req, g)
             /\ UNCHANGED <<users, orgs, orgCount>>
        ELSE IF \E o \in DOMAIN orgs : orgs[o].name = dto.name
        THEN /\ last' = Answer(req, Response("conflict", "none"))
             /\ UNCHANGED <<users, orgs, orgCount>>
        ELSE /\ orgs' = [ o \in DOMAIN orgs \cup {id} |->
                            IF o = id THEN [ name |-> dto.name ] ELSE orgs[o] ]
             /\ orgCount' = id
             /\ users' = [ users EXCEPT ![u] = [ role |-> "OWNER",
                                                 organizationId |-> id ] ]
             /\ last' = [ Answer(req, Allowed) EXCEPT !.org = id ]
     /\ UNCHANGED <<tasks, taskCount>>

OrganizationsFindAll(u) ==
  LET user == Principal(u)
      req == Req("organizations.findAll", u)
      g == PermissionsGuard(user.role, {ORG_READ})
  IN /\ Idle
     /\ last' = IF g # "allow" THEN Denied(req, g)
                ELSE [ Answer(req, Allowed) EXCEPT !.result = DOMAIN orgs ]
     /\ UNCHANGED <<users, orgs, orgCount, tasks, taskCount>>

OrganizationsFindOne(u, id) ==
  LET user == Principal(u)
      req == [ Req("organizations.findOne", u) EXCEPT !.org = id ]
      g == PermissionsGuard(user.role, {ORG_READ})
  IN /\ Idle
     /\ last' = IF g # "allow" THEN Denied(req, g)
                ELSE Answer(req, orgFindOne(id, user))
     /\ UNCHANGED <<users, orgs, orgCount, tasks, taskCount>>

OrganizationsUpdate(u, id, description) ==
  LET user == Principal(u)
      req == [ Req("organizations.update", u) EXCEPT !.org = id ]
      g == PermissionsGuard(user.role, {ORG_MANAGE})
      r == orgManage(id, user)
  IN /\ Idle
     /\ IF g # "allow"
        THEN /\ last' = Denied(req, g)
             /\ UNCHANGED orgs
        ELSE IF r.outcome # "ok"
        THEN /\ last' = Answer(req, r)
             /\ UNCHANGED orgs
        ELSE \* Object.assign and save: only the description column changes
             /\ orgs' = orgs
             /\ last' = Answer(req, Allowed)
     /\ UNCHANGED <<users, orgCount, tasks, taskCount>>

OrganizationsRemove(u, id) ==
  LET user == Principal(u)
      req == [ Req("organizations.remove", u) EXCEPT !.org = id ]
      g == PermissionsGuard(user.role, {ORG_MANAGE})
      r == orgManage(id, user)
  IN /\ Idle
     /\ IF g # "allow"
        THEN /\ last' = Denied(req, g)
             /\ UNCHANGED <<orgs, tasks>>
        ELSE IF r.outcome # "ok"
        THEN /\ last' = Answer(req, r)
             /\ UNCHANGED <<orgs, tasks>>
        ELSE IF \E m \in DOMAIN users : users[m].organizationId = id
        THEN \* the users.organizationId foreign key rejects the delete
             /\ last' = Answer(req, Response("error", "ForeignKey"))
             /\ UNCHANGED <<orgs, tasks>>
        ELSE \* tasks.organizationId is ON DELETE CASCADE
             /\ orgs' = [ o \in DOMAIN orgs \ {id} |-> orgs[o] ]
             /\ tasks' = [ t \in { x \in DOMAIN tasks :
                                     tasks[x].organizationId # id } |-> tasks[t] ]
             /\ last' = Answer(req, Allowed)
     /\ UNCHANGED <<users, orgCount, taskCount>>

OrganizationsGetUsers(u, id) ==
  LET user == Principal(u)
      req == [ Req("organizations.getUsers", u) EXCEPT !.org = id ]
      g == PermissionsGuard(user.role, {USER_READ})
  IN /\ Idle
     /\ last' = IF g # "allow" THEN Denied(req, g)
                ELSE IF user.organizationId # id
                THEN Denied(req, "CrossOrganizationAccess")
                ELSE Answer(req, Allowed)
     /\ UNCHANGED <<users, orgs, orgCount, tasks, taskCount>>

OrganizationsAddUser(u, id, userId, role) ==
  LET user == Principal(u)
      req == [ Req("organizations.addUser", u)
                 EXCEPT !.org = id, !.target = userId ]
      g == PermissionsGuard(user.role, {USER_CREATE})
      r == addUserChecks(id, userId, user)
  IN /\ Idle
     /\ IF g # "allow"
        THEN /\ last' = Denied(req, g)
             /\ UNCHANGED users
        ELSE IF r.outcome # "ok"
        THEN /\ last' = Answer(req, r)
             /\ UNCHANGED users
        ELSE /\ users' = [ users EXCEPT ![userId] =
                             [ role |-> role, organizationId |-> id ] ]
             \* the response is the updated user record
             /\ last' = [ Answer(req, Allowed) EXCEPT !.role = role ]
     /\ UNCHANGED <<orgs, orgCount, tasks, taskCount>>

OrganizationsRemoveUser(u, id, userId) ==
  LET user == Principal(u)
      req == [ Req("organizations.removeUser", u)
                 EXCEPT !.org = id, !.target = userId ]
      g == PermissionsGuard(user.role, {USER_DELETE})
      r == removeUserChecks(id, userId, user)
  IN /\ Idle
     /\ IF g # "allow"
        THEN /\ last' = Denied(req, g)
             /\ UNCHANGED users
        ELSE IF r.outcome # "ok"
        THEN /\ last' = Answer(req, r)
             /\ UNCHANGED users
        ELSE /\ users' = [ users EXCEPT ![userId] =
                             [ role |-> "VIEWER", organizationId |-> NoOrg ] ]
             /\ last' = Answer(req, Allowed)
     /\ UNCHANGED <<orgs, orgCount, tasks, taskCount>>

OrganizationsUpdateUserRole(u, id, userId, newRole) ==
  LET user == Principal(u)
      req == [ Req("organizations.updateUserRole", u)
                 EXCEPT !.org = id, !.target = userId ]
      g == PermissionsGuard(user.role, {USER_UPDATE})
      r == updateUserRoleChecks(id, userId, user)
  IN /\ Idle
     /\ IF g # "allow"
        THEN /\ last' = Denied(req, g)
             /\ UNCHANGED users
        ELSE IF r.outcome # "ok"
        THEN /\ last' = Answer(req, r)
             /\ UNCHANGED users
        ELSE /\ users' = [ users EXCEPT ![userId].role = newRole ]
             \* the response is the updated user record
             /\ last' = [ Answer(req, Allowed) EXCEPT !.role = newRole ]
     /\ UNCHANGED <<orgs, orgCount, tasks, taskCount>>

(***************************************************************************)
(* Users endpoints (UsersController)                                       *)
(***************************************************************************)
\* deleteUser without the comparison of the two organizations
deleteUserChecks_NoOrganizationCheck(userId, currentUser) ==
  IF ~RolesGuard(currentUser.role, {"OWNER"})
  THEN Response("forbidden", "InsufficientHierarchy")
  ELSE IF currentUser.id = userId
  THEN Response("forbidden", "SelfTargetForbidden")
  ELSE IF userId \notin DOMAIN users THEN Response("notfound", "none")
  ELSE Allowed

\* the checks of UsersController.deleteUser, the RolesGuard included
deleteUserChecks(userId, currentUser) ==
  IF ~RolesGuard(currentUser.role, {"OWNER"})
  THEN Response("forbidden", "InsufficientHierarchy")
  ELSE IF currentUser.id = userId
  THEN Response("forbidden", "SelfTargetForbidden")
  ELSE IF userId \notin DOMAIN users THEN Response("notfound", "none")
  ELSE IF users[userId].organizationId # currentUser.organizationId
  THEN Response("forbidden", "CrossOrganizationAccess")
  ELSE Allowed

UsersDeleteUser(u, userId) ==
  LET user == Principal(u)
      req == [ Req("users.deleteUser", u) EXCEPT !.target = userId ]
      r == deleteUserChecks(userId, user)
  IN /\ Idle
     /\ IF r.outcome # "ok"
        THEN /\ last' = Answer(req, r)
             /\ UNCHANGED <<users, tasks>>
        ELSE IF \E t \in DOMAIN tasks : /\ tasks[t].assignedToId = userId
                                         /\ tasks[t].ownerId # userId
        THEN \* the tasks.assignedToId foreign key rejects the delete
             /\ last' = Answer(req, Response("error", "ForeignKey"))
             /\ UNCHANGED <<users, tasks>>
        ELSE \* tasks.ownerId is ON DELETE CASCADE
             /\ users' = [ x \in DOMAIN users \ {userId} |-> users[x] ]
             /\ tasks' = [ t \in { x \in DOMAIN tasks :
                                     tasks[x].ownerId # userId } |-> tasks[t] ]
             /\ last' = Answer(req, Allowed)
     /\ UNCHANGED <<orgs, orgCount, taskCount>>

UsersGetAllUsers(u) ==
  LET user == Principal(u)
      req == Req("users.getAllUsers", u)
  IN /\ Idle
     /\ last' = IF user.organizationId = NoOrg
                THEN Answer(req, Response("badrequest", "none"))
                ELSE Answer(req, Allowed)
     /\ UNCHANGED <<users, orgs, orgCount, tasks, taskCount>>

(***************************************************************************)
(* AuthService                                                             *)
(***************************************************************************)
\* the email column of the seeded users
EmailOf(u) ==
  CASE u = "u1" -> "vindrajit1996@gmail.com"
    [] u = "u2" -> "chrisKaram@gmail.com"
    [] u = "u3" -> "testuser@gmail.com"

EmailInputs == { EmailOf(u) : u \in UserIds } \cup {"nonexistent@example.com"}

PasswordInputs == {"Admin@1234", "wrongpassword"}

\* bcrypt.hash and bcrypt.compare
Hash(password) == << "bcrypt", password >>

Compare(password, hashed) == hashed = Hash(password)

\* the password column: the seed hashes the same password for every user
PasswordOf(u) == Hash("Admin@1234")

\* userRepository.findOne({ where: { email } })
FindByEmail(email) == { u \in DOMAIN users : EmailOf(u) = email }

Unauthorized(reason, text) ==
  [ outcome |-> "unauthorized", reason |-> reason, message |-> << text >> ]

\* validateUser answering an unknown email with a message of its own
validateUser_SaysUserNotFound(email, password) ==
  IF FindByEmail(email) = {}
  THEN Unauthorized("UserNotFound", "User not found")
  ELSE IF ~Compare(password, PasswordOf(CHOOSE u \in FindByEmail(email) : TRUE))
  THEN Unauthorized("WrongPassword", "Invalid credentials")
  ELSE [ outcome |-> "ok", reason |-> "none", message |-> << >> ]

\* AuthService.validateUser: the exception, or ok
validateUser(email, password) ==
  IF FindByEmail(email) = {}
  THEN Unauthorized("UserNotFound", "Invalid credentials")
  ELSE IF ~Compare(password, PasswordOf(CHOOSE u \in FindByEmail(email) : TRUE))
  THEN Unauthorized("WrongPassword", "Invalid credentials")
  ELSE [ outcome |-> "ok", reason |-> "none", message |-> << >> ]

\* AuthService.login: validateUser, then the token payload of the user
AuthLogin(email, password) ==
  LET v == validateUser(email, password)
      req == [ NoLast EXCEPT !.op = "auth.login", !.email = email ]
  IN /\ Idle
     /\ last' = IF v.outcome # "ok"
                THEN [ req EXCEPT !.outcome = v.outcome, !.reason = v.reason,
                                  !.message = v.message ]
                ELSE LET u == CHOOSE x \in FindByEmail(email) : TRUE
                     IN [ req EXCEPT !.outcome = "ok", !.target = u,
                                     !.role = users[u].role ]
     /\ UNCHANGED <<users, orgs, orgCount, tasks, taskCount>>

(***************************************************************************)
(* Direct calls of the RbacService functions                               *)
(***************************************************************************)
Bool(b) == IF b THEN "true" ELSE "false"

CallCanManageRole(managerRole, targetRole) ==
  /\ Idle
  /\ last' = [ NoLast EXCEPT !.op = "rbac.canManageRole",
                             !.role = managerRole, !.role2 = targetRole,
                             !.outcome = Bool(canManageRole(managerRole, targetRole)) ]
  /\ UNCHANGED <<users, orgs, orgCount, tasks, taskCount>>

CallGetPermissionsForRole(role) ==
  /\ Idle
  /\ last' = [ NoLast EXCEPT !.op = "rbac.getPermissionsForRole",
                             !.role = role, !.outcome = "ok",
                             !.perms = Range(getPermissionsForRole(role)) ]
  /\ UNCHANGED <<users, orgs, orgCount, tasks, taskCount>>

CallGetRoleLevel(role) ==
  /\ Idle
  /\ last' = [ NoLast EXCEPT !.op = "rbac.getRoleLevel",
                             !.role = role, !.outcome = "ok",
                             !.level = getRoleLevel(role) ]
  /\ UNCHANGED <<users, orgs, orgCount, tasks, taskCount>>

\* canAccessResource for a stored user and a stored task
CallCanAccessResource(u, id, requiredPermission) ==
  /\ Idle
  /\ id \in DOMAIN tasks
  /\ last' = [ Req("rbac.canAccessResource", u)
                 EXCEPT !.task = id, !.perm = requiredPermission,
                        !.outcome = Bool(canAccessResource(users[u].role, u,
                                           tasks[id].ownerId, requiredPermission)) ]
  /\ UNCHANGED <<users, orgs, orgCount, tasks, taskCount>>

\* the permissions findOne, update and remove hand to verifyAccess
VerifyAccessPermissions == { TASK_READ_OWN, TASK_UPDATE_OWN, TASK_DELETE_OWN }

\* a verifyAccess call whose answer also depends on how many organizations
\* and tasks the stores hold
CallVerifyAccess_ReadsStores(u, id, requiredPermission) ==
  LET v == IF orgCount > 1 /\ taskCount > 0 THEN "NotOwner"
           ELSE verifyAccess(tasks[id], Principal(u), requiredPermission)
      req == [ Req("tasks.verifyAccess", u)
                 EXCEPT !.task = id, !.perm = requiredPermission ]
  IN /\ Idle
     /\ id \in DOMAIN tasks
     /\ last' = IF v = "allow" THEN Answer(req, Allowed) ELSE Denied(req, v)
     /\ UNCHANGED <<users, orgs, orgCount, tasks, taskCount>>

\* verifyAccess as the service methods call it, for a stored user and a stored
\* task, without the controller's guard in front
CallVerifyAccess(u, id, requiredPermission) ==
  LET v == verifyAccess(tasks[id], Principal(u), requiredPermission)
      req == [ Req("tasks.verifyAccess", u)
                 EXCEPT !.task = id, !.perm = requiredPermission ]
  IN /\ Idle
     /\ id \in DOMAIN tasks
     /\ last' = IF v = "allow" THEN Answer(req, Allowed) ELSE Denied(req, v)
     /\ UNCHANGED <<users, orgs, orgCount, tasks, taskCount>>

TaskPermissions == { TASK_READ_OWN, TASK_READ_ALL, TASK_UPDATE_OWN, TASK_DELETE_OWN }

(***************************************************************************)
(* The request completes: the response is sent and the per-request         *)
(* principal and decision are discarded.  Requests are handled one at a    *)
(* time.                                                                   *)
(***************************************************************************)
Respond ==
  /\ last.op # "none"
  /\ last' = NoLast
  /\ UNCHANGED <<users, orgs, orgCount, tasks, taskCount, inflight>>

Next ==
  \/ Idle /\ UNCHANGED inflight /\ \E u \in DOMAIN users : \E dto \in CreateTaskDtos : TasksCreate(u, dto)
  \/ Idle /\ UNCHANGED inflight /\ \E u \in DOMAIN users : TasksFindAll(u)
  \/ Idle /\ UNCHANGED inflight /\ \E u \in DOMAIN users : \E s \in StatusInputs : TasksFindByStatus(u, s)
  \/ Idle /\ UNCHANGED inflight /\ \E u \in DOMAIN users : \E id \in TaskIds : TasksFindOne(u, id)
  \/ Idle /\ UNCHANGED inflight /\ \E u \in DOMAIN users : \E id \in TaskIds : \E dto \in UpdateTaskDtos :
        TasksUpdate(u, id, dto)
  \/ Idle /\ UNCHANGED inflight /\ \E u \in DOMAIN users : \E id \in TaskIds : TasksRemove(u, id)
  \/ Idle /\ UNCHANGED inflight /\ \E u \in DOMAIN users : \E id \in TaskIds : OwnershipGuardCheck(u, id)
  \/ Idle /\ UNCHANGED inflight /\ \E u \in DOMAIN users : \E dto \in CreateOrganizationDtos :
        OrganizationsCreate(u, dto)
  \/ Idle /\ UNCHANGED inflight /\ \E u \in DOMAIN users : OrganizationsFindAll(u)
  \/ Idle /\ UNCHANGED inflight /\ \E u \in DOMAIN users : \E id \in OrgIds : OrganizationsFindOne(u, id)
  \/ Idle /\ UNCHANGED inflight /\ \E u \in DOMAIN users : \E id \in OrgIds : \E d \in OrgDescriptions :
        OrganizationsUpdate(u, id, d)
  \/ Idle /\ UNCHANGED inflight /\ \E u \in DOMAIN users : \E id \in OrgIds : OrganizationsRemove(u, id)
  \/ Idle /\ UNCHANGED inflight /\ \E u \in DOMAIN users : \E id \in OrgIds : OrganizationsGetUsers(u, id)
  \/ Idle /\ UNCHANGED inflight /\ \E u \in DOMAIN users : \E id \in OrgIds : \E t \in UserIds :
        \E r \in RoleInputs : OrganizationsAddUser(u, id, t, r)
  \/ Idle /\ UNCHANGED inflight /\ \E u \in DOMAIN users : \E id \in OrgIds : \E t \in UserIds :
        OrganizationsRemoveUser(u, id, t)
  \/ Idle /\ UNCHANGED inflight /\ \E u \in DOMAIN users : \E id \in OrgIds : \E t \in UserIds :
        \E r \in RoleInputs : OrganizationsUpdateUserRole(u, id, t, r)
  \/ Idle /\ UNCHANGED inflight /\ \E u \in DOMAIN users : \E t \in UserIds : UsersDeleteUser(u, t)
  \/ Idle /\ UNCHANGED inflight /\ \E u \in DOMAIN users : UsersGetAllUsers(u)
  \/ Idle /\ UNCHANGED inflight /\ \E a \in RoleInputs : \E b \in RoleInputs : CallCanManageRole(a, b)
  \/ Idle /\ UNCHANGED inflight /\ \E r \in RoleInputs : CallGetPermissionsForRole(r)
  \/ Idle /\ UNCHANGED inflight /\ \E r \in RoleInputs : CallGetRoleLevel(r)
  \/ Idle /\ UNCHANGED inflight /\ \E u \in DOMAIN users : \E id \in TaskIds : \E p \in TaskPermissions :
        CallCanAccessResource(u, id, p)
  \/ Idle /\ UNCHANGED inflight /\ \E u \in DOMAIN users : \E id \in DOMAIN tasks :
        \E p \in VerifyAccessPermissions : CallVerifyAccess(u, id, p)
  \/ Idle /\ UNCHANGED inflight /\ \E e \in EmailInputs : \E pw \in PasswordInputs : AuthLogin(e, pw)
  \/ Respond

Spec == Init /\ [][Next]_vars

(***************************************************************************)
(* Concurrent requests.  A handler runs on the event loop until it awaits  *)
(* the repository, and other requests run in between: the user record is   *)
(* read when the token is validated, the target is looked up after the     *)
(* checks on that record, and the write comes after the lookup.            *)
(***************************************************************************)
\* a request whose token was validated: request.user is the record read then
Authenticated(u) ==
  [ pc |-> "authenticated", actor |-> u, role |-> users[u].role,
    organizationId |-> users[u].organizationId,
    op |-> "none", org |-> NoOrg, target |-> NoUser, newRole |-> "none" ]

\* request.user of an in-flight request
CurrentUser(r) == [ id |-> r.actor, role |-> r.role, organizationId |-> r.organizationId ]

Completed(r, resp) ==
  Answer([ Req(r.op, r.actor) EXCEPT !.org = r.org, !.target = r.target ], resp)

\* JwtStrategy.validate
Authenticate(u) ==
  /\ Cardinality(inflight) < MaxInFlight
  /\ inflight' = inflight \cup {Authenticated(u)}
  /\ UNCHANGED <<users, orgs, orgCount, tasks, taskCount, last>>

\* updateUserRole up to the lookup of the target: the guard and the checks on
\* request.user, then userRepository.findOne
BeginUpdateUserRole(r, id, userId, newRole) ==
  LET q == [ r EXCEPT !.pc = "write", !.op = "organizations.updateUserRole",
                      !.org = id, !.target = userId, !.newRole = newRole ]
      g == PermissionsGuard(r.role, {USER_UPDATE})
      c == updateUserRoleChecks(id, userId, CurrentUser(r))
  IN /\ r.pc = "authenticated"
     /\ IF g # "allow"
        THEN /\ last' = Completed(q, Response("forbidden", g))
             /\ inflight' = inflight \ {r}
        ELSE IF c.outcome # "ok"
        THEN /\ last' = Completed(q, c)
             /\ inflight' = inflight \ {r}
        ELSE /\ inflight' = (inflight \ {r}) \cup {q}
             /\ UNCHANGED last
     /\ UNCHANGED <<users, orgs, orgCount, tasks, taskCount>>

\* removeUser up to the lookup of the target
BeginRemoveUser(r, id, userId) ==
  LET q == [ r EXCEPT !.pc = "write", !.op = "organizations.removeUser",
                      !.org = id, !.target = userId ]
      g == PermissionsGuard(r.role, {USER_DELETE})
      c == removeUserChecks(id, userId, CurrentUser(r))
  IN /\ r.pc = "authenticated"
     /\ IF g # "allow"
        THEN /\ last' = Completed(q, Response("forbidden", g))
             /\ inflight' = inflight \ {r}
        ELSE IF c.outcome # "ok"
        THEN /\ last' = Completed(q, c)
             /\ inflight' = inflight \ {r}
        ELSE /\ inflight' = (inflight \ {r}) \cup {q}
             /\ UNCHANGED last
     /\ UNCHANGED <<users, orgs, orgCount, tasks, taskCount>>

\* userRepository.update(userId, ...) of updateUserRole
WriteUserRole(r) ==
  /\ r.pc = "write"
  /\ r.op = "organizations.updateUserRole"
  /\ users' = [ users EXCEPT ![r.target].role = r.newRole ]
  /\ inflight' = (inflight \ {r}) \cup {[ r EXCEPT !.pc = "return" ]}
  /\ UNCHANGED <<orgs, orgCount, tasks, taskCount, last>>

\* the closing userRepository.findOne of updateUserRole: the response is the
\* record as it is then
ReturnUserRole(r) ==
  /\ r.pc = "return"
  /\ last' = [ Completed(r, Allowed) EXCEPT !.role = users[r.target].role ]
  /\ inflight' = inflight \ {r}
  /\ UNCHANGED <<users, orgs, orgCount, tasks, taskCount>>

\* userRepository.update(userId, ...) of removeUser, which then returns
WriteRemoveUser(r) ==
  /\ r.pc = "write"
  /\ r.op = "organizations.removeUser"
  /\ users' = [ users EXCEPT ![r.target] =
                  [ role |-> "VIEWER", organizationId |-> NoOrg ] ]
  /\ last' = Completed(r, Allowed)
  /\ inflight' = inflight \ {r}
  /\ UNCHANGED <<orgs, orgCount, tasks, taskCount>>

NextConcurrent ==
  \/ \E u \in DOMAIN users : Authenticate(u)
  \/ \E r \in inflight : \E id \in DOMAIN orgs : \E t \in UserIds :
        \E nr \in UserRole : BeginUpdateUserRole(r, id, t, nr)
  \/ \E r \in inflight : \E id \in DOMAIN orgs : \E t \in UserIds :
        BeginRemoveUser(r, id, t)
  \/ \E r \in inflight : WriteUserRole(r)
  \/ \E r \in inflight : ReturnUserRole(r)
  \/ \E r \in inflight : WriteRemoveUser(r)

SpecConcurrent == Init /\ [][NextConcurrent]_vars

(***************************************************************************)
(* Properties                                                              *)
(***************************************************************************)
TaskAccessOps == {"tasks.findOne", "tasks.update", "tasks.remove"}

UserManagementOps ==
  {"organizations.updateUserRole", "organizations.removeUser", "users.deleteUser"}

\* C1: a request on a task of another organization than the principal's is
\* denied with reason CrossOrganizationAccess, by findOne, update, remove and
\* by the OwnershipGuard, whatever the role
C1_CrossOrganizationDenied ==
  [][ ( /\ last'.op \in TaskAccessOps \cup {"ownershipGuard"}
        /\ last'.task \in DOMAIN tasks
        /\ tasks[last'.task].organizationId # users[last'.actor].organizationId )
      => ( /\ last'.outcome = "forbidden"
           /\ last'.reason = "CrossOrganizationAccess" ) ]_vars

\* C2: no principal reads (findOne, findAll), updates or deletes an
\* organization other than its own, whatever its role
C2_NoCrossOrganizationBypass ==
  [][ /\ ( ( /\ last'.op \in {"organizations.findOne", "organizations.update",
                                "organizations.remove"}
              /\ last'.org \in DOMAIN orgs
              /\ users[last'.actor].organizationId # last'.org )
            => last'.outcome = "forbidden" )
      /\ ( ( last'.op = "organizations.findAll" /\ last'.outcome = "ok" )
            => last'.result \subseteq {users[last'.actor].organizationId} ) ]_vars

\* C3: for a VIEWER and a task of its organization, update and delete are
\* allowed when the VIEWER owns the task and denied with NotOwner otherwise,
\* the assignee included
C3_ViewerWritesOwnTasksOnly ==
  [][ ( /\ last'.op \in {"tasks.update", "tasks.remove"}
        /\ users[last'.actor].role = "VIEWER"
        /\ last'.task \in DOMAIN tasks
        /\ tasks[last'.task].organizationId = users[last'.actor].organizationId )
      => IF tasks[last'.task].ownerId = last'.actor
         THEN last'.outcome # "forbidden"
         ELSE last'.outcome = "forbidden" /\ last'.reason = "NotOwner" ]_vars

\* C4: for a VIEWER and a task of its organization, a read is allowed by
\* findOne and by canAccessResource exactly when the VIEWER owns the task or
\* is assigned to it, and findOne denies with NotOwner otherwise
C4_ViewerReadsOwnOrAssigned ==
  [][ ( /\ last'.op \in {"tasks.findOne", "rbac.canAccessResource"}
        /\ last'.op = "rbac.canAccessResource" => last'.perm = TASK_READ_OWN
        /\ users[last'.actor].role = "VIEWER"
        /\ last'.task \in DOMAIN tasks
        /\ tasks[last'.task].organizationId = users[last'.actor].organizationId )
      => LET mine == \/ tasks[last'.task].ownerId = last'.actor
                     \/ tasks[last'.task].assignedToId = last'.actor
         IN IF last'.op = "tasks.findOne"
            THEN IF mine THEN last'.outcome = "ok"
                 ELSE last'.outcome = "forbidden" /\ last'.reason = "NotOwner"
            ELSE last'.outcome = Bool(mine) ]_vars

\* C5: findAll and findByStatus return to a VIEWER exactly the tasks of its
\* organization that it owns or is assigned to, and to an OWNER or ADMIN all
\* tasks of its organization (with the requested status, for findByStatus)
C5_ListingFiltersByRole ==
  [][ ( /\ last'.op \in {"tasks.findAll", "tasks.findByStatus"}
        /\ last'.outcome = "ok" )
      => last'.result =
           { t \in DOMAIN tasks :
               /\ tasks[t].organizationId = users[last'.actor].organizationId
               /\ last'.op = "tasks.findByStatus" => tasks[t].status = last'.status
               /\ users[last'.actor].role = "VIEWER"
                    => \/ tasks[t].ownerId = last'.actor
                       \/ tasks[t].assignedToId = last'.actor } ]_vars

\* C6: an OWNER or ADMIN is never refused the read, update or delete of a task
\* of its own organization, whoever owns the task and whoever it is assigned to
C6_OwnerAdminAccessAllOrgTasks ==
  [][ ( /\ last'.op \in TaskAccessOps
        /\ users[last'.actor].role \in {"OWNER", "ADMIN"}
        /\ last'.task \in DOMAIN tasks
        /\ tasks[last'.task].organizationId = users[last'.actor].organizationId )
      => ( /\ last'.outcome \notin {"forbidden", "notfound"}
           /\ \A p \in {TASK_READ_OWN, TASK_UPDATE_OWN, TASK_DELETE_OWN} :
                accessFor(last'.task, Principal(last'.actor), p) = Allowed ) ]_vars

\* C6 witness: an ADMIN has updated a task it neither owns nor is assigned to
C6_Witness ==
  /\ last.op = "tasks.update"
  /\ last.outcome = "ok"
  /\ last.actor \in DOMAIN users
  /\ users[last.actor].role = "ADMIN"
  /\ last.task \in DOMAIN tasks
  /\ tasks[last.task].ownerId # last.actor
  /\ tasks[last.task].assignedToId # last.actor

\* C7: a request to change the role of, remove or delete the requesting user
\* itself is refused, also for an OWNER, and leaves the user store unchanged
C7_NoSelfManagement ==
  [][ ( /\ last'.op \in UserManagementOps
        /\ last'.target = last'.actor )
      => ( /\ last'.outcome = "forbidden"
           /\ users' = users
           /\ \A o \in OrgIds :
                /\ updateUserRoleChecks(o, last'.actor,
                                        Principal(last'.actor)).outcome = "forbidden"
                /\ removeUserChecks(o, last'.actor,
                                    Principal(last'.actor)).outcome = "forbidden"
           /\ deleteUserChecks(last'.actor,
                               Principal(last'.actor)).outcome = "forbidden" ) ]_vars

\* C7 witness: an OWNER asked to change its own role and was refused for
\* targeting itself
C7_Witness ==
  /\ last.op = "organizations.updateUserRole"
  /\ last.target = last.actor
  /\ last.actor \in DOMAIN users
  /\ users[last.actor].role = "OWNER"
  /\ users[last.actor].organizationId = last.org
  /\ last.outcome = "forbidden"
  /\ last.reason = "SelfTargetForbidden"

\* C8: a role change, removal or deletion of another user succeeds only if the
\* actor's role can manage the target's current role
C8_ManagementNeedsHigherLevel ==
  [][ ( /\ last'.op \in UserManagementOps
        /\ last'.target # last'.actor
        /\ last'.outcome = "ok" )
      => canManageRole(users[last'.actor].role, users[last'.target].role) ]_vars

\* C9: canManageRole(a, b) is true exactly when level(a) > level(b), with
\* OWNER = 3, ADMIN = 2, VIEWER = 1
C9_CanManageIsStrictOrder ==
  ( /\ last.op = "rbac.canManageRole"
    /\ last.role \in UserRole
    /\ last.role2 \in UserRole )
  => last.outcome =
       Bool(<<last.role, last.role2>> \in
              { <<"OWNER", "ADMIN">>, <<"OWNER", "VIEWER">>, <<"ADMIN", "VIEWER">> })

\* C9 witness: canManageRole was asked about a role and itself, and said no
C9_Witness ==
  /\ last.op = "rbac.canManageRole"
  /\ last.role = "OWNER"
  /\ last.role2 = "OWNER"
  /\ last.outcome = "false"

C11_InvalidRoleFailsLoudly ==
  /\ ( /\ last.op \in {"rbac.getPermissionsForRole", "rbac.getRoleLevel"}
       /\ last.role \notin UserRole )
     => last.outcome = "InvalidRoleError"
  /\ ( /\ last.op = "rbac.canManageRole"
       /\ (last.role \notin UserRole \/ last.role2 \notin UserRole) )
     => last.outcome = "InvalidRoleError"
  /\ ( /\ last.op = "rbac.canAccessResource"
       /\ users[last.actor].role \notin UserRole )
     => last.outcome = "InvalidRoleError"

\* the permission a task request asks for
RequestedPermission(req) ==
  CASE req.op = "tasks.findOne" -> TASK_READ_OWN
    [] req.op = "tasks.update" -> TASK_UPDATE_OWN
    [] req.op = "tasks.remove" -> TASK_DELETE_OWN
    [] OTHER -> req.perm

\* C12: the gates are evaluated in the order permission, organization,
\* ownership: a principal whose role lacks the requested permission is denied
\* with MissingPermission whatever the task, CrossOrganizationAccess is given
\* only when the permission is held, and NotOwner only when the permission is
\* held and the task is of the principal's organization
C12_GatesInOrder ==
  [][ LET held == hasPermission(users[last'.actor].role, RequestedPermission(last'))
      IN /\ ( /\ last'.op \in TaskAccessOps \cup {"tasks.verifyAccess"}
              /\ last'.task \in DOMAIN tasks )
            => /\ ~held => ( /\ last'.outcome = "forbidden"
                             /\ last'.reason = "MissingPermission" )
               /\ last'.reason = "CrossOrganizationAccess" => held
               /\ last'.reason = "NotOwner"
                    => /\ held
                       /\ tasks[last'.task].organizationId
                            = users[last'.actor].organizationId
         /\ ( last'.op = "rbac.canAccessResource" /\ ~held )
            => last'.outcome = "false" ]_vars

OwnerOnlyOps ==
  { "organizations.update", "organizations.remove", "organizations.removeUser",
    "organizations.updateUserRole", "users.deleteUser" }

\* C13: a principal that is not an OWNER is refused the update and the delete
\* of an organization, the removal of a user, a role change and a user
\* deletion, in its own organization too, and the stores stay as they were;
\* an ADMIN is refused removal and organization management for lack of
\* user:delete and org:manage
C13_OnlyOwnerManages ==
  [][ ( /\ last'.op \in OwnerOnlyOps
        /\ users[last'.actor].role # "OWNER" )
      => /\ last'.outcome = "forbidden"
         /\ users' = users
         /\ orgs' = orgs
         /\ tasks' = tasks
         /\ ( /\ users[last'.actor].role = "ADMIN"
              /\ last'.op \in { "organizations.update", "organizations.remove",
                                 "organizations.removeUser" } )
            => last'.reason = "MissingPermission" ]_vars

\* C13 witness: an ADMIN asked to delete a user of its own organization and
\* was refused
C13_Witness ==
  /\ last.op = "users.deleteUser"
  /\ last.outcome = "forbidden"
  /\ last.actor \in DOMAIN users
  /\ last.target \in DOMAIN users
  /\ last.target # last.actor
  /\ users[last.actor].role = "ADMIN"
  /\ users[last.actor].organizationId # NoOrg
  /\ users[last.target].organizationId = users[last.actor].organizationId

\* the user record x is changed or deleted by the step
UserChanged(x) == x \notin DOMAIN users' \/ users'[x] # users[x]

SameOrganization(a, b) ==
  /\ users[a].organizationId # NoOrg
  /\ users[a].organizationId = users[b].organizationId

\* C14: a role change, a removal or a deletion succeeds only when actor and
\* target are members of the same organization, and no request changes the
\* role, the membership or the existence of another user unless both are in
\* the same organization (or the request adds a user that has no
\* organization)
C14_ManagementWithinOrganization ==
  [][ /\ ( /\ last'.op \in UserManagementOps
           /\ last'.outcome = "ok" )
         => /\ last'.target \in DOMAIN users
            /\ SameOrganization(last'.actor, last'.target)
      /\ \A x \in DOMAIN users :
           ( /\ last'.op # "none"
             /\ x # last'.actor
             /\ UserChanged(x) )
           => \/ /\ last'.op \in UserManagementOps
                 /\ SameOrganization(last'.actor, x)
              \/ /\ last'.op = "organizations.addUser"
                 /\ users[x].organizationId = NoOrg ]_vars

\* C14 witness: an OWNER asked to delete a user of another organization and
\* was refused
C14_Witness ==
  /\ last.op = "users.deleteUser"
  /\ last.outcome = "forbidden"
  /\ last.reason = "CrossOrganizationAccess"
  /\ last.actor \in DOMAIN users
  /\ last.target \in DOMAIN users
  /\ users[last.actor].role = "OWNER"
  /\ users[last.actor].organizationId # NoOrg
  /\ users[last.target].organizationId # NoOrg
  /\ users[last.target].organizationId # users[last.actor].organizationId

\* C15: a role change, removal or deletion whose target is the actor itself is
\* denied with reason SelfTargetForbidden, before any role or hierarchy check,
\* whatever the actor's role
C15_SelfTargetIsItsOwnGate ==
  [][ ( /\ last'.op \in UserManagementOps
        /\ last'.target = last'.actor )
      => ( /\ last'.outcome = "forbidden"
           /\ last'.reason = "SelfTargetForbidden" ) ]_vars

GateReasons == {"MissingPermission", "CrossOrganizationAccess", "NotOwner"}

\* C16: a task request refused at any of the three gates is answered with the
\* same message as it would be at the other two, and the message carries
\* neither the reason nor the name of a permission
C16_OneGenericForbiddenMessage ==
  ( /\ last.op \in TaskAccessOps \cup {"tasks.verifyAccess", "ownershipGuard"}
    /\ last.outcome = "forbidden"
    /\ last.reason \in GateReasons )
  => /\ \A r \in GateReasons : last.message = ForbiddenMessage(last, r)
     /\ \A i \in DOMAIN last.message :
          last.message[i] \notin Permission \cup GateReasons

PureCalls ==
  { "tasks.verifyAccess", "rbac.canAccessResource", "rbac.canManageRole",
    "rbac.getPermissionsForRole", "rbac.getRoleLevel" }

C18_PermissionsFollowTheHierarchy ==
  ( /\ last.op = "rbac.getPermissionsForRole"
    /\ last.role \in UserRole )
  => /\ \A h \in UserRole :
          getRoleLevel(h) > getRoleLevel(last.role)
            => /\ last.perms \subseteq Range(getPermissionsForRole(h))
               /\ \A p \in Permission :
                    hasPermission(last.role, p) => hasPermission(h, p)
     /\ last.role = "ADMIN"
          => Range(getPermissionsForRole("OWNER")) \ last.perms
               = {"user:delete", "org:manage"}
     /\ last.role = "OWNER"
          => { p \in last.perms : ~hasPermission("ADMIN", p) }
               = {"user:delete", "org:manage"}

\* C18 witness: the VIEWER set was returned, and it is a proper part of the
\* sets of ADMIN and OWNER
C18_Witness ==
  /\ last.op = "rbac.getPermissionsForRole"
  /\ last.role = "VIEWER"
  /\ last.perms # {}
  /\ last.perms # Range(getPermissionsForRole("ADMIN"))
  /\ last.perms \subseteq Range(getPermissionsForRole("ADMIN"))
  /\ last.perms \subseteq Range(getPermissionsForRole("OWNER"))

C19_RefusedWitness ==
  /\ last.op = "tasks.create"
  /\ last.outcome = "forbidden"
  /\ last.reason = "NoOrganization"
  /\ tasks = << >>

C21_LoginFailuresAreIdentical ==
  last.op = "auth.login"
  => /\ last.outcome \in {"ok", "unauthorized"}
     /\ last.outcome = "unauthorized"
          => /\ last.message = << "Invalid credentials" >>
             /\ last.reason \in {"UserNotFound", "WrongPassword"}
             /\ last.reason = "UserNotFound" <=> FindByEmail(last.email) = {}
     /\ last.outcome = "ok"
          => /\ FindByEmail(last.email) = {last.target}
             /\ last.message = << >>

\* C21 witness: a login with the email of a user that had been deleted failed
\* like a login with a wrong password
C21_Witness ==
  /\ last.op = "auth.login"
  /\ last.outcome = "unauthorized"
  /\ last.reason = "UserNotFound"
  /\ last.email = EmailOf("u3")
  /\ last.message = << "Invalid credentials" >>

\* C22: an addUser or updateUserRole that succeeds gives a role whose level is
\* not above the actor's, so a user becomes OWNER only through an OWNER or by
\* creating an organization
C22_NoRoleAboveTheActors ==
  [][ /\ ( /\ last'.op \in {"organizations.addUser", "organizations.updateUserRole"}
           /\ last'.outcome = "ok" )
         => getRoleLevel(last'.role) <= getRoleLevel(users[last'.actor].role)
      /\ \A x \in DOMAIN users \cap DOMAIN users' :
           ( users[x].role # "OWNER" /\ users'[x].role = "OWNER" )
           => \/ last'.op = "organizations.create" /\ last'.actor = x
              \/ users[last'.actor].role = "OWNER" ]_vars

\* the organization has a member with role OWNER
HasOwner(o) ==
  \E u \in DOMAIN users : users[u].organizationId = o /\ users[u].role = "OWNER"

\* C23: under every interleaving of updateUserRole and removeUser requests,
\* the request that writes a user record is one whose actor is, at that
\* moment, OWNER of the organization it acts on, and an organization that has
\* an OWNER still has one after the write
C23_WriterIsStillOwner ==
  [][ users' # users
      => /\ \A r \in inflight :
              ( r.pc = "write" /\ r \notin inflight' )
              => /\ users[r.actor].role = "OWNER"
                 /\ users[r.actor].organizationId = r.org
         /\ \A o \in DOMAIN orgs : HasOwner(o) => HasOwner(o)' ]_vars

\* C24: with requests handled one after the other, no updateUserRole,
\* removeUser or DELETE /users/:id leaves an organization that had an OWNER
\* without one, and a request that changes a user is made by an OWNER that it
\* leaves as it was
C24_SequentialRequestsKeepAnOwner ==
  [][ last'.op \in UserManagementOps
      => /\ \A o \in DOMAIN orgs : HasOwner(o) => HasOwner(o)'
         /\ users' # users
              => /\ users[last'.actor].role = "OWNER"
                 /\ last'.actor \in DOMAIN users'
                 /\ users'[last'.actor] = users[last'.actor] ]_vars

\* C24 witness: the seeded OWNER was removed from the organization by a user
\* it had made OWNER, and the organization has an OWNER
C24_Witness ==
  /\ last.op = "organizations.removeUser"
  /\ last.outcome = "ok"
  /\ last.target = "u2"
  /\ last.org \in DOMAIN orgs
  /\ HasOwner(last.org)
  /\ users["u2"].organizationId = NoOrg

\* C25: a removeUser that succeeds leaves its target with no organization and
\* role VIEWER; a user without organization gets an empty list from findAll
\* and findByStatus and is refused findOne, update and remove on every stored
\* task, the ones it owns or is assigned to included; and it stays without
\* organization until it is added to one or creates one
C25_RemovedUserLosesTaskAccess ==
  [][ /\ ( last'.op = "organizations.removeUser" /\ last'.outcome = "ok" )
         => users'[last'.target] = [ role |-> "VIEWER", organizationId |-> NoOrg ]
      /\ ( /\ last'.op \in {"tasks.findAll", "tasks.findByStatus"}
           /\ users[last'.actor].organizationId = NoOrg )
         => last'.outcome = "ok" /\ last'.result = {}
      /\ ( /\ last'.op \in TaskAccessOps
           /\ users[last'.actor].organizationId = NoOrg
           /\ last'.task \in DOMAIN tasks )
         => last'.outcome = "forbidden" /\ tasks' = tasks
      /\ \A x \in DOMAIN users \cap DOMAIN users' :
           ( users[x].organizationId = NoOrg /\ users'[x] # users[x] )
           => \/ last'.op = "organizations.addUser" /\ last'.target = x
              \/ last'.op = "organizations.create" /\ last'.actor = x ]_vars

\* C25 witness: a user that was removed from its organization asked for a
\* task it owns and was refused
C25_Witness ==
  /\ last.op = "tasks.findOne"
  /\ last.outcome = "forbidden"
  /\ last.actor \in DOMAIN users
  /\ users[last.actor] = [ role |-> "VIEWER", organizationId |-> NoOrg ]
  /\ last.task \in DOMAIN tasks
  /\ tasks[last.task].ownerId = last.actor

\* C26: a create of an organization by a caller that belongs to an
\* organization is rejected, and changes no user's organizationId or role and
\* no organization
C26_CreateOrganizationOnlyWithoutOne ==
  [][ ( /\ last'.op = "organizations.create"
        /\ users[last'.actor].organizationId # NoOrg )
      => /\ last'.outcome # "ok"
         /\ users' = users
         /\ orgs' = orgs ]_vars

\* C27: addUser succeeds exactly when the actor is OWNER or ADMIN of the
\* organization and the target exists and has no organization, and then
\* changes only the target, to that organization and the given role; in every
\* other case it fails with Forbidden, NotFound or Conflict and the user store
\* is unchanged
C27_AddUserContract ==
  [][ last'.op = "organizations.addUser"
      => IF /\ users[last'.actor].organizationId = last'.org
            /\ users[last'.actor].role \in {"OWNER", "ADMIN"}
            /\ last'.target \in DOMAIN users
            /\ users[last'.target].organizationId = NoOrg
         THEN /\ last'.outcome = "ok"
              /\ users' = [ users EXCEPT ![last'.target] =
                              [ role |-> last'.role, organizationId |-> last'.org ] ]
         ELSE /\ last'.outcome \in {"forbidden", "notfound", "conflict"}
              /\ users' = users ]_vars

\* C27 witness: an OWNER asked to add a user that is a member of another
\* organization and was answered Conflict
C27_ConflictWitness ==
  /\ last.op = "organizations.addUser"
  /\ last.outcome = "conflict"
  /\ last.actor \in DOMAIN users
  /\ last.target \in DOMAIN users
  /\ users[last.actor].role = "OWNER"
  /\ users[last.actor].organizationId = last.org
  /\ users[last.target].organizationId \notin {NoOrg, last.org}

\* C27 witness: an ADMIN added a user that had no organization
C27_Witness ==
  /\ last.op = "organizations.addUser"
  /\ last.outcome = "ok"
  /\ last.actor \in DOMAIN users
  /\ users[last.actor].role = "ADMIN"
  /\ users[last.target] = [ role |-> "VIEWER", organizationId |-> last.org ]

\* C28: an update or a remove of a task that is answered Forbidden leaves
\* the targeted task and every other stored task as they were: the access
\* check comes before the save and the remove
C28_DeniedWriteChangesNoTask ==
  [][ ( /\ last'.op \in {"tasks.update", "tasks.remove"}
        /\ last'.outcome = "forbidden" )
      => /\ tasks' = tasks
         /\ taskCount' = taskCount ]_vars

\* C28 witness: a VIEWER with the permission asked to remove a stored task
\* of its organization that another user owns and was refused
C28_Witness ==
  /\ last.op = "tasks.remove"
  /\ last.outcome = "forbidden"
  /\ last.reason # "MissingPermission"
  /\ last.actor \in DOMAIN users
  /\ users[last.actor].role = "VIEWER"
  /\ last.task \in DOMAIN tasks
  /\ tasks[last.task].organizationId = users[last.actor].organizationId
  /\ tasks[last.task].ownerId # last.actor

\* C29: no request changes the ownerId or the organizationId of a stored
\* task: as long as a task is stored it has the owner and the organization
\* it was created with
C29_OwnerAndOrganizationAreFixed ==
  [][ \A t \in DOMAIN tasks \cap DOMAIN tasks' :
        /\ tasks'[t].ownerId = tasks[t].ownerId
        /\ tasks'[t].organizationId = tasks[t].organizationId ]_vars

\* C30: for every user whose role is OWNER, ADMIN or VIEWER and every stored
\* task, OwnershipGuard.canActivate allows exactly when verifyAccess does
\* not throw, for each permission TasksService passes to verifyAccess; and
\* a request answered by either of them was answered as the other decides
C30_GuardAndServiceDecideAlike ==
  /\ \A u \in DOMAIN users : \A id \in DOMAIN tasks :
       \A p \in VerifyAccessPermissions :
         users[u].role \in UserRole
         => ( OwnershipGuard(Principal(u), id) = Allowed
              <=> verifyAccess(tasks[id], Principal(u), p) = "allow" )
  /\ ( /\ last.op = "ownershipGuard"
       /\ last.task \in DOMAIN tasks
       /\ users[last.actor].role \in UserRole )
     => \A p \in VerifyAccessPermissions :
          last.outcome = "ok"
          <=> verifyAccess(tasks[last.task], Principal(last.actor), p) = "allow"
  /\ ( last.op = "tasks.verifyAccess" /\ users[last.actor].role \in UserRole )
     => ( last.outcome = "ok"
          <=> OwnershipGuard(Principal(last.actor), last.task) = Allowed )

\* C30 witness: the guard refused a VIEWER for not owning a task of another
\* organization, which verifyAccess refuses for its organization
C30_Witness ==
  /\ last.op = "ownershipGuard"
  /\ last.outcome = "forbidden"
  /\ last.reason = "NotOwner"
  /\ last.task \in DOMAIN tasks
  /\ users[last.actor].role = "VIEWER"
  /\ verifyAccess(tasks[last.task], Principal(last.actor), TASK_READ_OWN)
       = "CrossOrganizationAccess"

\* C30 witness of the allowing side: the guard let a VIEWER through to a
\* task it is assigned to and does not own, and verifyAccess allows it too
C30_AllowedWitness ==
  /\ last.op = "ownershipGuard"
  /\ last.outcome = "ok"
  /\ last.task \in DOMAIN tasks
  /\ users[last.actor].role = "VIEWER"
  /\ tasks[last.task].ownerId # last.actor
  /\ verifyAccess(tasks[last.task], Principal(last.actor), TASK_DELETE_OWN) = "allow"

====
